---------------------------- MODULE Spec2Model ----------------------------
(***************************************************************************)
(* A model of src/src/main.rs: generate_startlist, the recursive window    *)
(* stabilizer (stabilize_windows / stabilize_window / move_to_prev_window  *)
(* / move_to_next_window) and the offset assignment loop.                  *)
(*                                                                         *)
(* Rust indexes windows from 0 and TLA+ sequences from 1: the model keeps  *)
(* the code's 0-based indices (i, rand_i, w) and reads windows[i + 1].     *)
(***************************************************************************)
EXTENDS Integers, Sequences, FiniteSets, TLC

\* Bounds of the explored inputs.
MaxWindows == 3
MaxDuration == 5
MaxCompetitors == 3
MaxThreshold == 3
MaxMinSpacing == 1
\* Depth of nested stabilize_windows calls the (finite) call stack holds.
MaxDepth == 4

VARIABLES
    windows,              \* Vec<Window>: <<[duration, competitors]>>
    spacing_threshold,    \* parameter of generate_startlist
    min_spacing,          \* parameter of generate_startlist
    input,                \* the windows as the caller passed them (never changes)
    pc,                   \* "start", "stabilize", "window", "unanchored", "done", "abort"
    fault,                \* why the program aborted: "none", "pop_empty", "gen_bool"
    entire_spacing,       \* the Option<isize> of lines 54-63
    stack,                \* active stabilize_windows calls, innermost last
    competitors,          \* the result vector, <<[competitor, offset]>>
    from_window,          \* for each result entry, the index of the window it was assigned in
    curr_start,           \* line 66
    windows_curr_start,   \* line 67
    w,                    \* index of the window the loop of line 68 is at
    window,               \* the competitors left in the window being assigned
    rev_curr_start,       \* line 82
    remaining_competitors,\* line 95
    spacing,              \* line 100
    remainder             \* line 100

vars == <<windows, spacing_threshold, min_spacing, input, pc, fault, entire_spacing,
          stack, competitors, from_window, curr_start, windows_curr_start, w, window,
          rev_curr_start, remaining_competitors, spacing, remainder>>

assignVars == <<competitors, from_window, curr_start, windows_curr_start, w, window,
                rev_curr_start, remaining_competitors, spacing, remainder>>

-----------------------------------------------------------------------------
(* Data *)

Origin == {"Top", "Bottom", "Current"}

Competitor(name, origin) == [name |-> name, origin |-> origin]

Window(duration, comps) == [duration |-> duration, competitors |-> comps]

CompetitorWithOffset(comp, offset) == [competitor |-> comp, offset |-> offset]

Range(s) == {s[k] : k \in 1..Len(s)}

RECURSIVE SumSeq(_)
SumSeq(s) == IF s = <<>> THEN 0 ELSE Head(s) + SumSeq(Tail(s))

Counts(ws) == [k \in 1..Len(ws) |-> Len(ws[k].competitors)]

Durations(ws) == [k \in 1..Len(ws) |-> ws[k].duration]

\* lines 42-49: the sums the first loop accumulates
CompetitorsCount(ws) == SumSeq(Counts(ws))

EntireDuration(ws) == SumSeq(Durations(ws))

Max(a, b) == IF a >= b THEN a ELSE b

\* Rust's / and % on isize truncate toward zero (the divisor is positive here).
TruncDiv(a, b) == IF a >= 0 THEN a \div b ELSE -((-a) \div b)

TruncRem(a, b) == a - b * TruncDiv(a, b)

\* isize::div_ceil, for a positive divisor
DivCeil(a, b) == -((-a) \div b)

\* VecDeque operations
PopFront(q) == Tail(q)

PopBack(q) == SubSeq(q, 1, Len(q) - 1)

PushFront(q, x) == <<x>> \o q

PushBack(q, x) == Append(q, x)

\* All orders a shuffle can leave a sequence of distinct competitors in.
PermsOf(s) == {t \in [1..Len(s) -> Range(s)] : Range(t) = Range(s)}

\* lines 42-46: every window's competitors shuffled independently
RECURSIVE Shuffled(_)
Shuffled(ws) ==
    IF ws = <<>> THEN {<<>>}
    ELSE {<<Window(Head(ws).duration, p)>> \o rest :
            p \in PermsOf(Head(ws).competitors), rest \in Shuffled(Tail(ws))}

-----------------------------------------------------------------------------
(* Inputs: windows with positive durations whose competitors are all       *)
(* unanchored (Origin::Current), named 1..n in the caller's order.         *)

CountVectors(n) ==
    {c \in [1..n -> 0..MaxCompetitors] : SumSeq(c) <= MaxCompetitors}

NamesBefore(c, k) == SumSeq(SubSeq(c, 1, k - 1))

\* n windows with the durations d and the competitor counts c
MakeWindows(n, d, c) ==
    [k \in 1..n |->
        Window(d[k], [j \in 1..c[k] |-> Competitor(NamesBefore(c, k) + j, "Current")])]

\* windows is one of the inputs whose durations are drawn from the set durations
InputWindows(durations) ==
    \E n \in 0..MaxWindows :
        \E d \in [1..n -> durations], c \in CountVectors(n) :
            windows = MakeWindows(n, d, c)

Unset == [tag |-> "Unset", val |-> 0]
Some(v) == [tag |-> "Some", val |-> v]
None == [tag |-> "None", val |-> 0]

Init ==
    /\ InputWindows(1..MaxDuration)
    /\ input = windows
    /\ spacing_threshold \in 0..MaxThreshold
    /\ min_spacing \in 1..MaxMinSpacing
    /\ pc = "start"
    /\ fault = "none"
    /\ entire_spacing = Unset
    /\ stack = <<>>
    /\ competitors = <<>>
    /\ from_window = <<>>
    /\ curr_start = 0
    /\ windows_curr_start = 0
    /\ w = 0
    /\ window = <<>>
    /\ rev_curr_start = 0
    /\ remaining_competitors = 0
    /\ spacing = 0
    /\ remainder = 0


-----------------------------------------------------------------------------
(* The stabilizer *)

\* calculate_window_space_exact: duration / count as f64, the duration when
\* the window is empty.  The quotient is kept as the exact fraction
\* <<numerator, denominator>>; for the small integers involved the f64
\* quotients of two different fractions differ, so f64 comparison agrees
\* with comparison of the fractions.
calculate_window_space_exact(duration, competitors_count) ==
    IF competitors_count = 0 THEN <<duration, 1>> ELSE <<duration, competitors_count>>

SpaceLess(a, b) == a[1] * b[2] < b[1] * a[2]

SpaceGreater(a, b) == SpaceLess(b, a)

SpaceEqual(a, b) == a[1] * b[2] = b[1] * a[2]

WindowSpace(ws, i) ==
    calculate_window_space_exact(ws[i + 1].duration, Len(ws[i + 1].competitors))

\* stabilize_window without the branch of lines 207-215: when both
\* neighbours are equally spaced the window makes no move.
StabilizeChoiceNoTie(ws, i, threshold) ==
    LET len == Len(ws)
        curr_window_space == WindowSpace(ws, i)
        next_window_spacing == WindowSpace(ws, i + 1)
        prev_window_spacing == WindowSpace(ws, i - 1)
    IN  IF ~SpaceLess(curr_window_space, <<threshold, 1>>) THEN {"stay"}
        ELSE IF i > 0 /\ i < len - 1 THEN
            IF /\ SpaceGreater(next_window_spacing, curr_window_space)
               /\ SpaceGreater(next_window_spacing, prev_window_spacing)
            THEN {"next"}
            ELSE IF /\ SpaceGreater(prev_window_spacing, curr_window_space)
                    /\ SpaceGreater(prev_window_spacing, next_window_spacing)
            THEN {"prev"}
            ELSE {"stay"}
        ELSE IF i > 0 /\ SpaceGreater(prev_window_spacing, curr_window_space) THEN {"prev"}
        ELSE IF i < len - 1 /\ SpaceGreater(next_window_spacing, curr_window_space) THEN {"next"}
        ELSE {"stay"}

\* stabilize_window's decision for window i: the moves it may make
\* ("stay" when it makes none; two moves when the coin of line 210 decides).
StabilizeChoice(ws, i, threshold) ==
    LET len == Len(ws)
        curr_window_space == WindowSpace(ws, i)
        next_window_spacing == WindowSpace(ws, i + 1)
        prev_window_spacing == WindowSpace(ws, i - 1)
    IN  IF ~SpaceLess(curr_window_space, <<threshold, 1>>) THEN {"stay"}
        ELSE IF i > 0 /\ i < len - 1 THEN
            IF /\ SpaceGreater(next_window_spacing, curr_window_space)
               /\ SpaceGreater(next_window_spacing, prev_window_spacing)
            THEN {"next"}
            ELSE IF /\ SpaceGreater(prev_window_spacing, curr_window_space)
                    /\ SpaceGreater(prev_window_spacing, next_window_spacing)
            THEN {"prev"}
            ELSE IF /\ SpaceGreater(prev_window_spacing, curr_window_space)
                    /\ SpaceEqual(prev_window_spacing, next_window_spacing)
            THEN {"prev", "next"}
            ELSE {"stay"}
        ELSE IF i > 0 /\ SpaceGreater(prev_window_spacing, curr_window_space) THEN {"prev"}
        ELSE IF i < len - 1 /\ SpaceGreater(next_window_spacing, curr_window_space) THEN {"next"}
        ELSE {"stay"}

\* move_to_prev_window with push_front in place of push_back
MoveToPrevWindowFront(ws, i) ==
    LET popped_competitor == Head(ws[i + 1].competitors)
    IN  [ws EXCEPT ![i + 1].competitors = PopFront(@),
                   ![i].competitors = PushFront(@, Competitor(popped_competitor.name, "Top"))]

\* move_to_prev_window, lines 142-144: the front of window i becomes the
\* back of window i - 1, tagged Top.
MoveToPrevWindow(ws, i) ==
    LET popped_competitor == Head(ws[i + 1].competitors)
    IN  [ws EXCEPT ![i + 1].competitors = PopFront(@),
                   ![i].competitors = PushBack(@, Competitor(popped_competitor.name, "Top"))]

\* move_to_next_window with push_back in place of push_front
MoveToNextWindowBack(ws, i) ==
    LET q == ws[i + 1].competitors
        popped_competitor == q[Len(q)]
    IN  [ws EXCEPT ![i + 1].competitors = PopBack(@),
                   ![i + 2].competitors = PushBack(@, Competitor(popped_competitor.name, "Bottom"))]

\* move_to_next_window, lines 149-151: the back of window i becomes the
\* front of window i + 1, tagged Bottom.
MoveToNextWindow(ws, i) ==
    LET q == ws[i + 1].competitors
        popped_competitor == q[Len(q)]
    IN  [ws EXCEPT ![i + 1].competitors = PopBack(@),
                   ![i + 2].competitors = PushFront(@, Competitor(popped_competitor.name, "Bottom"))]

\* One active call of stabilize_windows: its rand_i, the loop index i it is
\* at, and (for reasoning about recursion) the competitor counts it started on.
Frame(rand_i, ws) == [rand_i |-> rand_i, i |-> 0, entry |-> Counts(ws)]

Abort(why) ==
    /\ pc' = "abort"
    /\ fault' = why
    /\ UNCHANGED <<windows, stack, entire_spacing>>

\* A call of stabilize_windows on ws from the calls in stk (line 157): a new
\* frame with a random rand_i.  The model follows the recursion to MaxDepth
\* nested calls and no further.
CallStabilizeWindows(ws, stk) ==
    /\ Len(stk) < MaxDepth
    /\ \E rand_i \in 0..(Len(ws) - 1) : stack' = Append(stk, Frame(rand_i, ws))
    /\ windows' = ws
    /\ pc' = "stabilize"
    /\ fault' = fault
    /\ entire_spacing' = entire_spacing

\* generate_startlist, lines 39-63
Start ==
    /\ pc = "start"
    /\ \E sh \in Shuffled(windows) :
         LET competitors_count == CompetitorsCount(sh)
             es == DivCeil(EntireDuration(sh), competitors_count)
         IN  IF competitors_count <= 0
             THEN /\ pc' = "done"
                  /\ windows' = sh
                  /\ UNCHANGED <<fault, entire_spacing, stack>>
             ELSE IF es <= spacing_threshold
             THEN /\ pc' = "window"
                  /\ windows' = sh
                  /\ entire_spacing' = Some(es)
                  /\ UNCHANGED <<fault, stack>>
             ELSE CallStabilizeWindows(sh, stack)
    /\ UNCHANGED <<spacing_threshold, min_spacing, input>>
    /\ UNCHANGED assignVars

\* One iteration of the loop of lines 158-160: stabilize_window on window
\* (i + rand_i) % len, and the migration with its nested stabilize_windows
\* call when it decides on one.
StabilizeWindow ==
    /\ pc = "stabilize"
    /\ stack # <<>>
    /\ LET top == stack[Len(stack)]
           len == Len(windows)
       IN  /\ top.i < len
           /\ LET i == (top.i + top.rand_i) % len
                  advanced == [stack EXCEPT ![Len(stack)].i = top.i + 1]
              IN  \E choice \in StabilizeChoice(windows, i, spacing_threshold) :
                    IF choice = "stay"
                    THEN /\ stack' = advanced
                         /\ UNCHANGED <<windows, pc, fault, entire_spacing>>
                    ELSE IF windows[i + 1].competitors = <<>>
                    THEN Abort("pop_empty")
                    ELSE IF choice = "prev"
                    THEN CallStabilizeWindows(MoveToPrevWindow(windows, i), advanced)
                    ELSE CallStabilizeWindows(MoveToNextWindow(windows, i), advanced)
    /\ UNCHANGED <<spacing_threshold, min_spacing, input>>
    /\ UNCHANGED assignVars

\* The loop of lines 158-160 is over: stabilize_windows returns, to the
\* migration that called it or (the outermost call) to line 62.
ReturnFromStabilizeWindows ==
    /\ pc = "stabilize"
    /\ stack # <<>>
    /\ stack[Len(stack)].i = Len(windows)
    /\ stack' = SubSeq(stack, 1, Len(stack) - 1)
    /\ IF Len(stack) = 1
       THEN pc' = "window" /\ entire_spacing' = None
       ELSE UNCHANGED <<pc, entire_spacing>>
    /\ UNCHANGED <<windows, fault, spacing_threshold, min_spacing, input>>
    /\ UNCHANGED assignVars

-----------------------------------------------------------------------------
(* Offset assignment, lines 65-138 *)

\* How many competitors at the front of q carry the origin.
LeadingCount(q, origin) ==
    CHOOSE k \in 0..Len(q) :
        /\ \A j \in 1..k : q[j].origin = origin
        /\ k = Len(q) \/ q[k + 1].origin # origin

\* How many competitors at the back of q carry the origin.
TrailingCount(q, origin) ==
    CHOOSE k \in 0..Len(q) :
        /\ \A j \in 1..k : q[Len(q) - j + 1].origin = origin
        /\ k = Len(q) \/ q[Len(q) - k].origin # origin

\* thread_rng().gen_bool(numerator / denominator): the values it can return;
\* none when the probability is outside [0, 1], where gen_bool panics.
GenBool(numerator, denominator) ==
    IF numerator < 0 \/ numerator > denominator THEN {}
    ELSE IF numerator = 0 THEN {FALSE}
    ELSE IF numerator = denominator THEN {TRUE}
    ELSE BOOLEAN

\* The last offset of window w, windows_curr_start + window.duration - 1
WindowEnd == windows_curr_start + windows[w + 1].duration - 1

\* lines 68-69 and 136: an empty window only advances windows_curr_start
SkipEmptyWindow ==
    /\ pc = "window"
    /\ w < Len(windows)
    /\ windows[w + 1].competitors = <<>>
    /\ windows_curr_start' = windows_curr_start + windows[w + 1].duration
    /\ w' = w + 1
    /\ UNCHANGED <<windows, spacing_threshold, min_spacing, input, pc, fault,
                   entire_spacing, stack, competitors, from_window, curr_start, window,
                   rev_curr_start, remaining_competitors, spacing, remainder>>

\* lines 70-103: the Bottom competitors at the front get offsets from
\* curr_start upward, the Top competitors at the back get offsets from the
\* window's end downward, and the spacing of the rest is computed.
AssignAnchored ==
    /\ pc = "window"
    /\ w < Len(windows)
    /\ windows[w + 1].competitors # <<>>
    /\ LET q == windows[w + 1].competitors
           nb == LeadingCount(q, "Bottom")
           afterBottom == SubSeq(q, nb + 1, Len(q))
           nt == TrailingCount(afterBottom, "Top")
           middle == SubSeq(afterBottom, 1, Len(afterBottom) - nt)
           bottoms == [j \in 1..nb |->
                         CompetitorWithOffset(q[j], curr_start + (j - 1) * spacing_threshold)]
           tops == [j \in 1..nt |->
                      CompetitorWithOffset(afterBottom[Len(afterBottom) - j + 1],
                                           WindowEnd - (j - 1) * spacing_threshold)]
           rev == WindowEnd - nt * spacing_threshold
           cs == curr_start + nb * spacing_threshold - spacing_threshold
           remaining_space == rev + spacing_threshold - cs
       IN  /\ competitors' = competitors \o bottoms \o tops
           /\ from_window' = from_window \o [j \in 1..(nb + nt) |-> w]
           /\ rev_curr_start' = rev
           /\ curr_start' = cs
           /\ remaining_competitors' = Len(middle)
           /\ window' = middle
           /\ IF Len(middle) # 0
              THEN /\ spacing' = TruncDiv(remaining_space, Len(middle) + 1)
                   /\ remainder' = TruncRem(remaining_space, Len(middle) + 1)
              ELSE /\ spacing' = 0
                   /\ remainder' = 0
    /\ pc' = "unanchored"
    /\ UNCHANGED <<windows, spacing_threshold, min_spacing, input, fault, entire_spacing,
                   stack, windows_curr_start, w>>

\* One iteration of the loop of lines 107-124 on an unanchored competitor.
AssignUnanchored ==
    /\ pc = "unanchored"
    /\ window # <<>>
    /\ Head(window).origin = "Current"
    /\ LET draws == IF rev_curr_start # WindowEnd
                    THEN GenBool(remainder, remaining_competitors)
                    ELSE {FALSE}
       IN  IF draws = {}
           THEN /\ Abort("gen_bool")
                /\ UNCHANGED assignVars
           ELSE \E extra \in draws :
                  LET offset == curr_start + (IF extra THEN 1 ELSE 0) + spacing
                  IN  /\ curr_start' = offset
                      /\ remainder' = IF extra THEN remainder - 1 ELSE remainder
                      /\ competitors' = Append(competitors,
                                               CompetitorWithOffset(Head(window), offset))
                      /\ from_window' = Append(from_window, w)
                      /\ remaining_competitors' = remaining_competitors - 1
                      /\ window' = Tail(window)
                      /\ UNCHANGED <<pc, fault, windows, stack, entire_spacing,
                                     windows_curr_start, w, rev_curr_start, spacing>>
    /\ UNCHANGED <<spacing_threshold, min_spacing, input>>

\* The loop of lines 107-124 ends (the window is used up, or line 122
\* breaks on an anchored competitor) and lines 127-136 advance the cursors.
FinishWindow ==
    /\ pc = "unanchored"
    /\ ~(window # <<>> /\ Head(window).origin = "Current")
    /\ curr_start' =
         IF rev_curr_start = WindowEnd
         THEN Max(curr_start + spacing_threshold,
                  windows_curr_start + windows[w + 1].duration)
         ELSE windows_curr_start + windows[w + 1].duration - 1 + spacing_threshold
    /\ windows_curr_start' = windows_curr_start + windows[w + 1].duration
    /\ w' = w + 1
    /\ window' = <<>>
    /\ pc' = "window"
    /\ UNCHANGED <<windows, spacing_threshold, min_spacing, input, fault, entire_spacing,
                   stack, competitors, from_window, rev_curr_start,
                   remaining_competitors, spacing, remainder>>

\* line 138: every window was visited, the result is returned
ReturnStartlist ==
    /\ pc = "window"
    /\ w = Len(windows)
    /\ pc' = "done"
    /\ UNCHANGED <<windows, spacing_threshold, min_spacing, input, fault, entire_spacing,
                   stack>>
    /\ UNCHANGED assignVars

Next ==
    \/ Start
    \/ StabilizeWindow
    \/ ReturnFromStabilizeWindows
    \/ SkipEmptyWindow
    \/ AssignAnchored
    \/ AssignUnanchored
    \/ FinishWindow
    \/ ReturnStartlist

Spec == Init /\ [][Next]_vars

TypeOK ==
    /\ pc \in {"start", "stabilize", "window", "unanchored", "done", "abort"}
    /\ fault \in {"none", "pop_empty", "gen_bool"}
    /\ Len(stack) <= MaxDepth

-----------------------------------------------------------------------------
(* Migrations alone: from any input, move_to_prev_window and               *)
(* move_to_next_window applied to any non-empty window with the neighbour  *)
(* they need, in any order.  Durations and thresholds play no part in a    *)
(* migration, so the windows all last one unit.                            *)

MigrateInit ==
    /\ InputWindows({1})
    /\ input = windows
    /\ spacing_threshold = 0
    /\ min_spacing = 1
    /\ pc = "start"
    /\ fault = "none"
    /\ entire_spacing = Unset
    /\ stack = <<>>
    /\ competitors = <<>>
    /\ from_window = <<>>
    /\ curr_start = 0
    /\ windows_curr_start = 0
    /\ w = 0
    /\ window = <<>>
    /\ rev_curr_start = 0
    /\ remaining_competitors = 0
    /\ spacing = 0
    /\ remainder = 0

MigrateToPrev ==
    /\ \E i \in 1..(Len(windows) - 1) :
         /\ windows[i + 1].competitors # <<>>
         /\ windows' = MoveToPrevWindow(windows, i)
    /\ UNCHANGED <<spacing_threshold, min_spacing, input, pc, fault, entire_spacing, stack>>
    /\ UNCHANGED assignVars

MigrateToNext ==
    /\ \E i \in 0..(Len(windows) - 2) :
         /\ windows[i + 1].competitors # <<>>
         /\ windows' = MoveToNextWindow(windows, i)
    /\ UNCHANGED <<spacing_threshold, min_spacing, input, pc, fault, entire_spacing, stack>>
    /\ UNCHANGED assignVars

MigrateNext == MigrateToPrev \/ MigrateToNext

MigrateSpec == MigrateInit /\ [][MigrateNext]_vars

-----------------------------------------------------------------------------
(* Properties *)

NamesOf(ws) ==
    UNION {{ws[k].competitors[j].name : j \in 1..Len(ws[k].competitors)} : k \in 1..Len(ws)}

Returned == pc = "done"

\* Some competitor of some window was migrated (it is no longer Current).
Migrated ==
    \E k \in 1..Len(windows) :
        \E j \in 1..Len(windows[k].competitors) :
            windows[k].competitors[j].origin # "Current"

BelowThreshold(i) == SpaceLess(WindowSpace(windows, i), <<spacing_threshold, 1>>)

\* Window i has an adjacent window with strictly greater spacing.
HasRoomierNeighbour(i) ==
    \/ i > 0 /\ SpaceGreater(WindowSpace(windows, i - 1), WindowSpace(windows, i))
    \/ i < Len(windows) - 1 /\ SpaceGreater(WindowSpace(windows, i + 1), WindowSpace(windows, i))

\* A stabilize_windows call is about to return (its loop is over), or the
\* outermost one has returned to generate_startlist.
StabilizeWindowsReturns ==
    \/ pc = "stabilize" /\ stack # <<>> /\ stack[Len(stack)].i = Len(windows)
    \/ pc \in {"window", "unanchored", "done"} /\ entire_spacing = None

\* The start of window k: the durations of the windows before it.
WindowStart(k) == SumSeq(SubSeq(Durations(windows), 1, k))

\* Position of an origin in the layout Bottom* Current* Top*.
Rank(c) == IF c.origin = "Bottom" THEN 0 ELSE IF c.origin = "Current" THEN 1 ELSE 2

Layout(q) == \A a \in 1..Len(q), b \in 1..Len(q) : a < b => Rank(q[a]) <= Rank(q[b])

\* C1: Conservation.  When generate_startlist returns, the result holds
\* every input competitor exactly once and nothing else (so its length is
\* the number of input competitors, and it is empty when there are none).
C1_Conservation ==
    Returned =>
        /\ Len(competitors) = CompetitorsCount(input)
        /\ {competitors[k].competitor.name : k \in 1..Len(competitors)} = NamesOf(input)
        /\ \A a \in 1..Len(competitors), b \in 1..Len(competitors) :
             competitors[a].competitor.name = competitors[b].competitor.name => a = b

\* C1 witness: a returned list that holds a Top-anchored, a Bottom-anchored
\* and an unanchored competitor (migrations in both directions took place).
C1_Witness ==
    /\ Returned
    /\ {competitors[k].competitor.origin : k \in 1..Len(competitors)} = Origin

\* C2: Termination of the stabilizer, stated so that a finite run refutes
\* it.  The moves a stabilize_windows call makes depend only on the windows'
\* durations and competitor counts and on its random draws.  If a nested call
\* starts on the counts an enclosing, still active call started on, the
\* same draws lead from the nested call to the same migrations and to a
\* further nested call on the same counts, without end: the recursion has
\* no bottom and a competitor is moved back and forth forever.  Termination
\* for every input therefore requires that no two active calls started on
\* the same counts.
C2_StabilizerTerminates ==
    \A a \in 1..Len(stack), b \in 1..Len(stack) :
        a < b => stack[a].entry # stack[b].entry

\* C3: Threshold convergence.  When stabilize_windows returns, either no
\* window's spacing is strictly below the threshold, or no improving move
\* remains: every window below the threshold has no adjacent window with
\* strictly greater spacing.
C3_ThresholdConvergence ==
    StabilizeWindowsReturns =>
        \/ \A i \in 0..(Len(windows) - 1) : ~BelowThreshold(i)
        \/ \A i \in 0..(Len(windows) - 1) : BelowThreshold(i) => ~HasRoomierNeighbour(i)

\* C3 witness: generate_startlist returned after a stabilization that
\* migrated a competitor and still left a window below the threshold.
C3_Witness ==
    /\ Returned
    /\ entire_spacing = None
    /\ Migrated
    /\ \E i \in 0..(Len(windows) - 1) : BelowThreshold(i)

\* C4: Output ordering.  The list generate_startlist returns is sorted by
\* offset ascending: each element's offset is at least the offset of the
\* element before it.
C4_OutputSorted ==
    Returned =>
        \A k \in 2..Len(competitors) : competitors[k].offset >= competitors[k - 1].offset

\* C5: Minimum spacing.  Two unanchored competitors of the same window that
\* were assigned consecutive offsets are at least min_spacing apart.
C5_MinSpacingRespected ==
    \A k \in 2..Len(competitors) :
        (/\ competitors[k].competitor.origin = "Current"
         /\ competitors[k - 1].competitor.origin = "Current"
         /\ from_window[k] = from_window[k - 1])
        => competitors[k].offset - competitors[k - 1].offset >= min_spacing

\* C6: Non-negative offsets.  Every offset in the result is at least 0.
C6_NonNegativeOffsets ==
    \A k \in 1..Len(competitors) : competitors[k].offset >= 0

\* C7: Scenario B.  A single window holding exactly one competitor yields
\* exactly one entry, at offset 0.
C7_SingleCompetitorAtZero ==
    (Returned /\ Len(input) = 1 /\ CompetitorsCount(input) = 1)
        => Len(competitors) = 1 /\ competitors[1].offset = 0

\* C8: Window boundaries.  Every competitor gets an offset at or after the
\* start of the window it is in when offsets are assigned.
C8_WindowBoundaryRespected ==
    \A k \in 1..Len(competitors) : competitors[k].offset >= WindowStart(from_window[k])

\* C9: Anchor layout.  After any sequence of migrations every window holds
\* its Bottom-anchored competitors first, then the unanchored ones, then the
\* Top-anchored ones.
C9_AnchorLayout ==
    \A k \in 1..Len(windows) : Layout(windows[k].competitors)

\* C9 witness: migrations from both neighbours left a window holding all
\* three kinds of competitor.
C9_Witness ==
    \E k \in 1..Len(windows) :
        {windows[k].competitors[j].origin : j \in 1..Len(windows[k].competitors)} = Origin

\* C10: The stabilizer never pops a competitor from an empty window.
C10_NoPopFromEmptyWindow ==
    fault # "pop_empty"
=============================================================================
